---- MODULE Spec2Model ----
(***************************************************************************)
(* Model of docker/scripts/produce_messages.py: load_descriptors (the      *)
(* dependency-ordered linking of file descriptors), the message type       *)
(* lookup of create_sample_messages, and the burst-then-interval publish   *)
(* loop of main.                                                           *)
(***************************************************************************)
EXTENDS Integers, Sequences, FiniteSets, TLC

\* ------------------------------------------------------------------ bounds
\* Largest number of file records in a snapshot.
MaxFiles == 3
\* Largest number of periodic cycles a run is followed through.
MaxCycles == 2

\* File names of the generated snapshots: the record at position i is named
\* FileNames[i]; names are only ever compared for equality.
FileNames == <<"a.proto", "b.proto", "c.proto", "d.proto", "e.proto">>
\* A dependency name that no record of a snapshot carries.
Missing == "missing.proto"

VARIABLES
    files,             \* descriptor_set.file: the parsed snapshot, in file order
    descriptors,       \* dict name -> FileDescriptor, in insertion order
    remaining,         \* records with dependencies not yet linked
    resolved_in_pass,  \* records linked by the current pass of the while loop
    idx,               \* position of the running for loop
    pc,                \* control point
    nextId,            \* identity of the next object constructed
    passes,            \* traversals of the record list that visited a record
    warned,            \* the "Could not resolve" warning was printed
    warning,           \* names printed by the warning
    user_desc,         \* create_sample_messages: descriptor found for User
    order_desc,        \* create_sample_messages: descriptor found for Order
    address_desc,      \* create_sample_messages: descriptor found for Address
    messages,          \* the corpus: (topic, payload, description) triples
    producer,          \* the KafkaProducer in use (its identity), 0 before
    open,              \* producers constructed and not closed
    opened,            \* number of producers constructed
    sent,              \* events of the initial burst, in order
    cycleSent,         \* events of the current periodic cycle, in order
    cycles,            \* periodic cycles begun
    error,             \* the exception raised inside main's try block
    result,            \* exit status of the script, read on exit
    user_file_desc,    \* test script: the FileDescriptor built for user.proto
    stdout             \* test script: chunks written to sys.stdout.buffer

loadVars == <<files, descriptors, remaining, resolved_in_pass, nextId, passes,
              warned, warning>>

lookupVars == <<user_desc, order_desc, address_desc, messages>>

sendVars == <<producer, open, opened, sent, cycleSent, cycles>>

testVars == <<user_file_desc, stdout>>

mainVars == <<user_desc, order_desc, address_desc, messages, producer, open,
              opened, sent, cycleSent, cycles, error, result, testVars>>

vars == <<files, descriptors, remaining, resolved_in_pass, idx, pc, nextId,
          passes, warned, warning, mainVars>>

\* ------------------------------------------------------- Python dict / list
DictHas(d, k) == \E i \in 1..Len(d) : d[i].key = k

DictGet(d, k) == d[CHOOSE i \in 1..Len(d) : d[i].key = k].val

\* d[k] = v: a new key is appended, an existing key keeps its position.
DictSet(d, k, v) ==
    IF DictHas(d, k)
    THEN [i \in 1..Len(d) |-> IF d[i].key = k THEN [key |-> k, val |-> v] ELSE d[i]]
    ELSE Append(d, [key |-> k, val |-> v])

\* list.remove(x): drops the first element equal to x.
ListRemove(s, x) ==
    IF \E i \in 1..Len(s) : s[i] = x
    THEN LET p == CHOOSE i \in 1..Len(s) : s[i] = x /\ \A j \in 1..(i - 1) : s[j] # x
         IN  SubSeq(s, 1, p - 1) \o SubSeq(s, p + 1, Len(s))
    ELSE s

RECURSIVE RemoveAll(_, _)
\* for resolved in resolved_in_pass: remaining.remove(resolved)
RemoveAll(s, xs) ==
    IF xs = <<>> THEN s ELSE RemoveAll(ListRemove(s, Head(xs)), Tail(xs))

SeqNames(s) == [i \in 1..Len(s) |-> s[i].name]

\* ---------------------------------------------------------- load_descriptors
\* FileDescriptor(name=..., package=..., serialized_pb=..., dependencies=...):
\* a new object; dependencies holds references (object identities).
FileDescriptor(file_proto, dependencies, id) ==
    [id            |-> id,
     name          |-> file_proto.name,
     package       |-> file_proto.package,
     message_types |-> file_proto.messages,
     dependencies  |-> dependencies]

\* Variant of NoDependency: a record with a single dependency is seeded too.
NoDependencyUpToOne(file_proto) == Len(file_proto.dependency) <= 1

\* not file_proto.dependency
NoDependency(file_proto) == Len(file_proto.dependency) = 0

\* Variant of Dependencies: each dependency is a rebuilt copy, an object of
\* its own identity, instead of the object held by the dict.
DependenciesCopied(file_proto, d) ==
    LET present == SelectSeq(file_proto.dependency, LAMBDA dep : DictHas(d, dep))
    IN  [i \in 1..Len(present) |-> DictGet(d, present[i]).id + 100]

\* [descriptors[dep] for dep in file_proto.dependency if dep in descriptors]
Dependencies(file_proto, d) ==
    LET present == SelectSeq(file_proto.dependency, LAMBDA dep : DictHas(d, dep))
    IN  [i \in 1..Len(present) |-> DictGet(d, present[i]).id]

\* Variant of AllLinked: one dependency found in the dict is enough.
AnyLinked(file_proto, d) == Len(Dependencies(file_proto, d)) > 0

\* len(dependencies) == len(file_proto.dependency)
AllLinked(file_proto, d) ==
    Len(Dependencies(file_proto, d)) = Len(file_proto.dependency)

\* Variant of WithDependencies: only records with several dependencies.
WithSeveralDependencies(fs) == SelectSeq(fs, LAMBDA fp : Len(fp.dependency) > 1)

\* remaining = [fp for fp in descriptor_set.file if fp.dependency]
WithDependencies(fs) == SelectSeq(fs, LAMBDA fp : Len(fp.dependency) > 0)

\* Body of the first for loop for one record.
SeedFile ==
    /\ pc = "seed"
    /\ idx <= Len(files)
    /\ LET file_proto == files[idx] IN
       IF NoDependency(file_proto)
       THEN /\ descriptors' = DictSet(descriptors, file_proto.name,
                                      FileDescriptor(file_proto, <<>>, nextId))
            /\ nextId' = nextId + 1
       ELSE UNCHANGED <<descriptors, nextId>>
    /\ idx' = idx + 1
    /\ passes' = IF idx = 1 THEN passes + 1 ELSE passes
    /\ UNCHANGED <<files, remaining, resolved_in_pass, pc, warned, warning, mainVars>>

\* End of the first for loop: build remaining and test the while condition.
SeedDone ==
    /\ pc = "seed"
    /\ idx > Len(files)
    /\ remaining' = WithDependencies(files)
    /\ resolved_in_pass' = <<>>
    /\ idx' = 1
    /\ pc' = IF remaining' # <<>> THEN "link" ELSE "loaded"
    /\ UNCHANGED <<files, descriptors, nextId, passes, warned, warning, mainVars>>

\* Body of the inner for loop of the while loop for one record.
LinkFile ==
    /\ pc = "link"
    /\ idx <= Len(remaining)
    /\ LET file_proto == remaining[idx] IN
       IF AllLinked(file_proto, descriptors)
       THEN /\ descriptors' = DictSet(descriptors, file_proto.name,
                   FileDescriptor(file_proto,
                                  Dependencies(file_proto, descriptors), nextId))
            /\ nextId' = nextId + 1
            /\ resolved_in_pass' = Append(resolved_in_pass, file_proto)
       ELSE UNCHANGED <<descriptors, nextId, resolved_in_pass>>
    /\ idx' = idx + 1
    /\ passes' = IF idx = 1 THEN passes + 1 ELSE passes
    /\ UNCHANGED <<files, remaining, pc, warned, warning, mainVars>>

\* Variant of Stalled: the loop breaks whenever a pass leaves records behind.
StalledOnAnyRest(resolved, rest) == rest # <<>>

\* not resolved_in_pass and remaining
Stalled(resolved, rest) == resolved = <<>> /\ rest # <<>>

\* End of a pass: drop what was linked, warn and break when nothing was,
\* otherwise test the while condition again.
LinkPassEnd ==
    /\ pc = "link"
    /\ idx > Len(remaining)
    /\ remaining' = RemoveAll(remaining, resolved_in_pass)
    /\ IF Stalled(resolved_in_pass, remaining')
       THEN /\ warned' = TRUE
            /\ warning' = SeqNames(remaining')
            /\ pc' = "loaded"
       ELSE /\ UNCHANGED <<warned, warning>>
            /\ pc' = IF remaining' # <<>> THEN "link" ELSE "loaded"
    /\ resolved_in_pass' = <<>>
    /\ idx' = 1
    /\ UNCHANGED <<files, descriptors, nextId, passes, mainVars>>

\* --------------------------------------------- load_descriptors as a whole
RECURSIVE SeedPass(_, _, _)
\* The first for loop over the records fs, from dict d and next identity id.
SeedPass(fs, d, id) ==
    IF fs = <<>> THEN [descriptors |-> d, nextId |-> id]
    ELSE IF NoDependency(Head(fs))
    THEN SeedPass(Tail(fs),
                  DictSet(d, Head(fs).name, FileDescriptor(Head(fs), <<>>, id)),
                  id + 1)
    ELSE SeedPass(Tail(fs), d, id)

RECURSIVE LinkPass(_, _, _, _)
\* The inner for loop over the records rest of one pass of the while loop.
LinkPass(rest, d, id, resolved) ==
    IF rest = <<>>
    THEN [descriptors |-> d, nextId |-> id, resolved_in_pass |-> resolved]
    ELSE IF AllLinked(Head(rest), d)
    THEN LinkPass(Tail(rest),
                  DictSet(d, Head(rest).name,
                          FileDescriptor(Head(rest), Dependencies(Head(rest), d), id)),
                  id + 1,
                  Append(resolved, Head(rest)))
    ELSE LinkPass(Tail(rest), d, id, resolved)

RECURSIVE LinkLoop(_, _, _)
\* The while loop from remaining = rest on: what is returned and printed.
LinkLoop(rest, d, id) ==
    IF rest = <<>>
    THEN [descriptors |-> d, warned |-> FALSE, warning |-> <<>>]
    ELSE LET pass == LinkPass(rest, d, id, <<>>)
             left == RemoveAll(rest, pass.resolved_in_pass)
         IN  IF Stalled(pass.resolved_in_pass, left)
             THEN [descriptors |-> pass.descriptors, warned |-> TRUE,
                   warning |-> SeqNames(left)]
             ELSE LinkLoop(left, pass.descriptors, pass.nextId)

\* load_descriptors on the file list fs: the dict returned, and the warning.
LoadDescriptors(fs) ==
    LET seeded == SeedPass(fs, <<>>, 1)
    IN  LinkLoop(WithDependencies(fs), seeded.descriptors, seeded.nextId)

\* ---------------------------------------------------- create_sample_messages
\* user_desc = None: no descriptor.
NoDesc == [name |-> "", package |-> "", file |-> ""]

\* user_file_desc = None: no file descriptor.
NoFileDesc ==
    [id |-> 0, name |-> "", package |-> "", message_types |-> <<>>,
     dependencies |-> <<>>]

\* One entry of file_desc.message_types_by_name.values().
MessageDescs(file_desc) ==
    [j \in 1..Len(file_desc.message_types) |->
        [name    |-> file_desc.message_types[j],
         package |-> file_desc.package,
         file    |-> file_desc.name]]

\* Variant of Match: a descriptor once found is kept.
MatchFirst(acc, message_desc) ==
    IF message_desc.name = "User" /\ acc.user = NoDesc
    THEN [acc EXCEPT !.user = message_desc]
    ELSE IF message_desc.name = "Order" /\ acc.order = NoDesc
    THEN [acc EXCEPT !.order = message_desc]
    ELSE IF message_desc.name = "Address" /\ acc.address = NoDesc
    THEN [acc EXCEPT !.address = message_desc]
    ELSE acc

\* Body of the inner lookup loop: the if / elif / elif chain on the name.
Match(acc, message_desc) ==
    IF message_desc.name = "User"
    THEN [acc EXCEPT !.user = message_desc]
    ELSE IF message_desc.name = "Order"
    THEN [acc EXCEPT !.order = message_desc]
    ELSE IF message_desc.name = "Address"
    THEN [acc EXCEPT !.address = message_desc]
    ELSE acc

RECURSIVE ScanMessages(_, _)
\* for message_desc in file_desc.message_types_by_name.values()
ScanMessages(acc, descs) ==
    IF descs = <<>> THEN acc
    ELSE ScanMessages(Match(acc, Head(descs)), Tail(descs))

RECURSIVE ScanFiles(_, _)
\* for file_desc in descriptors.values()
ScanFiles(acc, d) ==
    IF d = <<>> THEN acc
    ELSE ScanFiles(ScanMessages(acc, MessageDescs(Head(d).val)), Tail(d))

\* The three descriptors after both lookup loops.
FindTypes(d) ==
    ScanFiles([user |-> NoDesc, order |-> NoDesc, address |-> NoDesc], d)

\* Variant of LookupFails: raises only when all three are missing.
LookupFailsAll(found) ==
    found.user = NoDesc /\ found.order = NoDesc /\ found.address = NoDesc

\* not user_desc or not order_desc or not address_desc
LookupFails(found) ==
    found.user = NoDesc \/ found.order = NoDesc \/ found.address = NoDesc

\* range(5) of the user loop and range(3) of the order loop.
UserSamples == 5
OrderSamples == 3

\* message.SerializeToString(): the wire bytes, determined by the field values.
SerializeToString(message) == [wire |-> message]

\* Formatted strings are kept as their pieces: f"User {i}" is <<"User ", i>>.
\* Amounts are in cents (99.99 is 9999), timestamps in milliseconds.
UserAddress(i) ==
    [street   |-> <<100 + i * 10, " Main St">>,
     city     |-> IF i % 2 = 0 THEN "Springfield" ELSE "Anytown",
     country  |-> "USA",
     zip_code |-> 12345 + i]

\* Variant of SampleUser: the identifier fields are built from i % 2.
SampleUserByParity(i) ==
    [id      |-> 1000 + (i % 2),
     name    |-> <<"User ", i % 2>>,
     email   |-> <<"user", i % 2, "@example.com">>,
     tags    |-> << <<"tag", i>>, <<"test">> >>,
     type    |-> IF i % 2 = 0 THEN 1 ELSE 2,
     address |-> UserAddress(i)]

\* Variant of SampleUser: every user is given type 1.
SampleUserAdmin(i) ==
    [id      |-> 1000 + i,
     name    |-> <<"User ", i>>,
     email   |-> <<"user", i, "@example.com">>,
     tags    |-> << <<"tag", i>>, <<"test">> >>,
     type    |-> 1,
     address |-> UserAddress(i)]

\* The user built by iteration i of the first loop.
SampleUser(i) ==
    [id      |-> 1000 + i,
     name    |-> <<"User ", i>>,
     email   |-> <<"user", i, "@example.com">>,
     tags    |-> << <<"tag", i>>, <<"test">> >>,
     type    |-> IF i % 2 = 0 THEN 1 ELSE 2,
     address |-> UserAddress(i)]

OrderAddress(i) ==
    [street   |-> <<500 + i * 20, " Oak Ave">>,
     city     |-> "Commerce City",
     country  |-> "USA",
     zip_code |-> 54321 + i]

\* The user embedded in the order built by iteration i of the second loop.
OrderUser(i) ==
    [id      |-> 2000 + i,
     name    |-> <<"Customer ", i>>,
     email   |-> <<"customer", i, "@example.com">>,
     tags    |-> <<>>,
     type    |-> 2,
     address |-> OrderAddress(i)]

\* The order built by iteration i of the second loop at wall-clock time now.
SampleOrder(i, now) ==
    [id                |-> 9000 + i,
     user              |-> OrderUser(i),
     total_amount      |-> 9999 + i * 2550,
     status            |-> 1,
     created_timestamp |-> now - i * 3600000,
     items             |-> << [product_id   |-> <<"PROD-", 1000 + i>>,
                               product_name |-> <<"Product ", i>>,
                               quantity     |-> i + 1,
                               unit_price   |-> 1999 + i * 500] >>]

\* messages after both loops: the user triples, then the order triples.
Corpus(now) ==
    [k \in 1..UserSamples |->
        [topic       |-> "user-events",
         value       |-> SerializeToString(SampleUser(k - 1)),
         description |-> <<"User ", k - 1>>]]
    \o
    [k \in 1..OrderSamples |->
        [topic       |-> "order-events",
         value       |-> SerializeToString(SampleOrder(k - 1, now)),
         description |-> <<"Order ", k - 1>>]]

\* Values int(time.time() * 1000) takes in the generated runs.
Clock == {1000000000, 1000003599}

\* ----------------------------------------------------------------- main
\* return 1 of the except block and return 0 after the try block.
ErrorStatus == 1
SuccessStatus == 0

\* time.sleep(30)
IntervalSeconds == 30

OpenEvent(c) == [ev |-> "open", conn |-> c]

CloseEvent(c) == [ev |-> "close", conn |-> c]

SleepEvent == [ev |-> "sleep", seconds |-> IntervalSeconds]

\* producer.send(topic, key=key, value=message_bytes) followed by
\* future.get(timeout=10); ok is whether get returned a receipt. The key is
\* "key-" and the wall-clock second, and is not recorded.
SendEvent(m, c, ok) ==
    [ev |-> "send", conn |-> c, topic |-> m.topic, value |-> m.value,
     description |-> m.description, ok |-> ok]

\* Variant of Representatives: the first two triples of the corpus.
FirstTwo(msgs) == <<msgs[1], msgs[2]>>

\* Variant of Representatives: the last two triples of the corpus.
LastTwo(msgs) == <<msgs[Len(msgs) - 1], msgs[Len(msgs)]>>

\* [user_msg, order_msg] = [messages[0], messages[-1]]
Representatives(msgs) == <<msgs[1], msgs[Len(msgs)]>>

\* Variant of Exhausted: the loop stops before the last element.
ExhaustedEarly(i, batch) == i >= Len(batch)

\* The for loop over batch has no element left at position i.
Exhausted(i, batch) == i > Len(batch)

\* Variant of AfterGet: a failed get is swallowed and the loop goes on.
AfterGetSwallowed(ok, here) == here

\* Control after future.get: on with the loop, or the exception leaves the
\* try block for the except block.
AfterGet(ok, here) == IF ok THEN here ELSE "except"

\* ------------------------------------------------------------ specification
\* Dependency lists of a snapshot of k records: index lists (0 is Missing),
\* strictly increasing, of at most two entries.
DepLists(k) ==
    {<<>>} \cup {<<a>> : a \in 0..k}
           \cup {p \in (0..k) \X (0..k) : p[1] < p[2]}

NameOf(i) == IF i = 0 THEN Missing ELSE FileNames[i]

\* The snapshot of k records carrying no message types whose record i
\* declares the dependencies deps[i].
BareSnapshot(k, deps) ==
    [i \in 1..k |->
        [name       |-> FileNames[i],
         package    |-> "",
         dependency |-> [j \in 1..Len(deps[i]) |-> NameOf(deps[i][j])],
         messages   |-> <<>>]]

\* State on entry to load_descriptors, before the descriptor set is read.
Init ==
    /\ files = <<>>
    /\ descriptors = <<>>
    /\ remaining = <<>>
    /\ resolved_in_pass = <<>>
    /\ idx = 1
    /\ pc = "parse"
    /\ nextId = 1
    /\ passes = 0
    /\ warned = FALSE
    /\ warning = <<>>
    /\ user_desc = NoDesc
    /\ order_desc = NoDesc
    /\ address_desc = NoDesc
    /\ messages = <<>>
    /\ producer = 0
    /\ open = {}
    /\ opened = 0
    /\ sent = <<>>
    /\ cycleSent = <<>>
    /\ cycles = 0
    /\ error = "none"
    /\ result = SuccessStatus
    /\ user_file_desc = NoFileDesc
    /\ stdout = <<>>

\* descriptor_set.ParseFromString(f.read()): the snapshot becomes the file list.
Parse(snapshot) ==
    /\ pc = "parse"
    /\ files' = snapshot
    /\ pc' = "seed"
    /\ UNCHANGED <<descriptors, remaining, resolved_in_pass, idx, nextId, passes,
                   warned, warning, mainVars>>

\* Every snapshot of up to MaxFiles bare records.
ParseBare ==
    /\ pc = "parse"
    /\ \E k \in 0..MaxFiles : \E deps \in [1..k -> DepLists(k)] :
            Parse(BareSnapshot(k, deps))

NextLoad == ParseBare \/ SeedFile \/ SeedDone \/ LinkFile \/ LinkPassEnd

\* load_descriptors alone, over every snapshot of the bounded shape.
SpecLoad == Init /\ [][NextLoad]_vars

\* The files a snapshot of main's runs is drawn from: user.proto and
\* order.proto as the producer expects them, and files that collide with
\* their type names or cannot be linked. Every User, Order and Address type
\* is taken to carry the fields the sample loops assign.
Catalogue ==
    << [name |-> "user.proto",    package |-> "test",    dependency |-> <<>>,
        messages |-> <<"Address", "User">>],
       [name |-> "order.proto",   package |-> "test",    dependency |-> <<"user.proto">>,
        messages |-> <<"OrderItem", "Order">>],
       [name |-> "legacy.proto",  package |-> "legacy",  dependency |-> <<>>,
        messages |-> <<"User">>],
       [name |-> "audit.proto",   package |-> "audit",   dependency |-> <<Missing>>,
        messages |-> <<"Order">>],
       [name |-> "archive.proto", package |-> "archive", dependency |-> <<"user.proto">>,
        messages |-> <<"Order", "Address">>] >>

\* Index lists of length k without repetition into the catalogue.
Picks(k) ==
    {p \in [1..k -> 1..Len(Catalogue)] : \A i \in 1..k : \A j \in 1..k : p[i] = p[j] => i = j}

\* Every snapshot of up to MaxFiles distinct catalogue files, in any order.
ParseCatalogue ==
    /\ pc = "parse"
    /\ \E k \in 0..MaxFiles : \E p \in Picks(k) :
            Parse([i \in 1..k |-> Catalogue[p[i]]])

\* ParseFromString raises on a malformed snapshot.
ParseError ==
    /\ pc = "parse"
    /\ error' = "ParseError"
    /\ pc' = "except"
    /\ UNCHANGED <<loadVars, testVars, idx, lookupVars, sendVars, result>>

\* create_sample_messages(descriptors): the lookup, the check, both sample
\* loops.
CreateSampleMessages ==
    /\ pc = "loaded"
    /\ LET found == FindTypes(descriptors) IN
       /\ user_desc' = found.user
       /\ order_desc' = found.order
       /\ address_desc' = found.address
       /\ IF LookupFails(found)
          THEN /\ error' = "ValueError"
               /\ pc' = "except"
               /\ UNCHANGED messages
          ELSE /\ \E now \in Clock : messages' = Corpus(now)
               /\ pc' = "connect"
               /\ UNCHANGED error
    /\ UNCHANGED <<loadVars, testVars, idx, sendVars, result>>

\* producer = KafkaProducer(...) before the burst.
BurstOpen ==
    /\ pc = "connect"
    /\ producer' = opened + 1
    /\ opened' = opened + 1
    /\ open' = open \cup {producer'}
    /\ sent' = Append(sent, OpenEvent(producer'))
    /\ idx' = 1
    /\ pc' = "burst"
    /\ UNCHANGED <<loadVars, testVars, lookupVars, cycleSent, cycles, error, result>>

\* One iteration of the burst loop: send, get, print, sleep(1).
BurstSend ==
    /\ pc = "burst"
    /\ ~Exhausted(idx, messages)
    /\ \E ok \in BOOLEAN :
          /\ sent' = Append(sent, SendEvent(messages[idx], producer, ok))
          /\ pc' = AfterGet(ok, "burst")
          /\ idx' = IF ok THEN idx + 1 ELSE idx
          /\ error' = IF pc' = "except" THEN "DeliveryError" ELSE error
    /\ UNCHANGED <<loadVars, testVars, lookupVars, producer, open, opened, cycleSent,
                   cycles, result>>

\* producer.flush(); producer.close() after the burst loop.
BurstClose ==
    /\ pc = "burst"
    /\ Exhausted(idx, messages)
    /\ open' = open \ {producer}
    /\ sent' = Append(sent, CloseEvent(producer))
    /\ pc' = "sleep"
    /\ UNCHANGED <<loadVars, testVars, idx, lookupVars, producer, opened, cycleSent,
                   cycles, error, result>>

\* while True: time.sleep(30)
Sleep ==
    /\ pc = "sleep"
    /\ cycles < MaxCycles
    /\ cycles' = cycles + 1
    /\ cycleSent' = <<SleepEvent>>
    /\ pc' = "cycle_open"
    /\ UNCHANGED <<loadVars, testVars, idx, lookupVars, producer, open, opened, sent,
                   error, result>>

\* producer = KafkaProducer(...) inside the loop.
CycleOpen ==
    /\ pc = "cycle_open"
    /\ producer' = opened + 1
    /\ opened' = opened + 1
    /\ open' = open \cup {producer'}
    /\ cycleSent' = Append(cycleSent, OpenEvent(producer'))
    /\ idx' = 1
    /\ pc' = "cycle"
    /\ UNCHANGED <<loadVars, testVars, lookupVars, sent, cycles, error, result>>

\* One iteration of the loop over [user_msg, order_msg]: send, get, print.
CycleSend ==
    /\ pc = "cycle"
    /\ ~Exhausted(idx, Representatives(messages))
    /\ \E ok \in BOOLEAN :
          /\ cycleSent' = Append(cycleSent,
                 SendEvent(Representatives(messages)[idx], producer, ok))
          /\ pc' = AfterGet(ok, "cycle")
          /\ idx' = IF ok THEN idx + 1 ELSE idx
          /\ error' = IF pc' = "except" THEN "DeliveryError" ELSE error
    /\ UNCHANGED <<loadVars, testVars, lookupVars, producer, open, opened, sent, cycles,
                   result>>

\* producer.flush(); producer.close() at the end of a cycle.
CycleClose ==
    /\ pc = "cycle"
    /\ Exhausted(idx, Representatives(messages))
    /\ open' = open \ {producer}
    /\ cycleSent' = Append(cycleSent, CloseEvent(producer))
    /\ pc' = "sleep"
    /\ UNCHANGED <<loadVars, testVars, idx, lookupVars, producer, opened, sent, cycles,
                   error, result>>

\* except Exception: print, traceback, return 1.
Except ==
    /\ pc = "except"
    /\ result' = ErrorStatus
    /\ pc' = "exit"
    /\ UNCHANGED <<loadVars, testVars, idx, lookupVars, sendVars, error>>

Next ==
    \/ ParseCatalogue \/ ParseError
    \/ SeedFile \/ SeedDone \/ LinkFile \/ LinkPassEnd
    \/ CreateSampleMessages
    \/ BurstOpen \/ BurstSend \/ BurstClose
    \/ Sleep \/ CycleOpen \/ CycleSend \/ CycleClose
    \/ Except

\* main, over every snapshot drawn from the catalogue.
Spec == Init /\ [][Next]_vars

\* -------------------------------------------------- test_protobuf_message.py
\* sys.exit(1)
TestErrorStatus == 1

\* The files a snapshot of the test script's runs is drawn from: user.proto
\* as the script expects it, user.proto files that lack one or both of the
\* two types, and other files, one of which defines both types.
TestCatalogue ==
    << [name |-> "user.proto",   package |-> "test",   dependency |-> <<>>,
        messages |-> <<"Address", "User">>],
       [name |-> "user.proto",   package |-> "legacy", dependency |-> <<>>,
        messages |-> <<"User">>],
       [name |-> "user.proto",   package |-> "geo",    dependency |-> <<>>,
        messages |-> <<"Address">>],
       [name |-> "user.proto",   package |-> "empty",  dependency |-> <<>>,
        messages |-> <<>>],
       [name |-> "order.proto",  package |-> "test",   dependency |-> <<"user.proto">>,
        messages |-> <<"OrderItem", "Order">>],
       [name |-> "common.proto", package |-> "common", dependency |-> <<>>,
        messages |-> <<"User", "Address">>] >>

\* Index lists of length k without repetition into the test catalogue.
TestPicks(k) ==
    {p \in [1..k -> 1..Len(TestCatalogue)] :
        \A i \in 1..k : \A j \in 1..k : p[i] = p[j] => i = j}

\* State on entry to the test script's try block.
InitTest ==
    /\ files = <<>>
    /\ descriptors = <<>>
    /\ remaining = <<>>
    /\ resolved_in_pass = <<>>
    /\ idx = 1
    /\ pc = "t_parse"
    /\ nextId = 1
    /\ passes = 0
    /\ warned = FALSE
    /\ warning = <<>>
    /\ user_desc = NoDesc
    /\ order_desc = NoDesc
    /\ address_desc = NoDesc
    /\ messages = <<>>
    /\ producer = 0
    /\ open = {}
    /\ opened = 0
    /\ sent = <<>>
    /\ cycleSent = <<>>
    /\ cycles = 0
    /\ error = "none"
    /\ result = SuccessStatus
    /\ user_file_desc = NoFileDesc
    /\ stdout = <<>>

\* descriptor_set.ParseFromString(f.read()): every snapshot of up to MaxFiles
\* distinct files of the test catalogue, in any order.
TestParse ==
    /\ pc = "t_parse"
    /\ \E k \in 0..MaxFiles : \E p \in TestPicks(k) :
            files' = [i \in 1..k |-> TestCatalogue[p[i]]]
    /\ pc' = "t_file"
    /\ UNCHANGED <<descriptors, remaining, resolved_in_pass, idx, nextId, passes,
                   warned, warning, mainVars>>

\* open or ParseFromString raises.
TestParseError ==
    /\ pc = "t_parse"
    /\ error' = "ParseError"
    /\ pc' = "t_except"
    /\ UNCHANGED <<loadVars, testVars, idx, lookupVars, sendVars, result>>

RECURSIVE FirstNamed(_, _, _)
\* for file_proto in descriptor_set.file: if file_proto.name == ...: break.
\* The position of the file the loop stops at, from position i on; 0 if the
\* loop runs to its end.
FirstNamed(fs, name, i) ==
    IF i > Len(fs) THEN 0
    ELSE IF fs[i].name = name THEN i
    ELSE FirstNamed(fs, name, i + 1)

\* The loop that builds user_file_desc and the check after it.
TestFindFile ==
    /\ pc = "t_file"
    /\ LET i == FirstNamed(files, "user.proto", 1) IN
       IF i = 0
       THEN /\ error' = "ValueError"
            /\ pc' = "t_except"
            /\ UNCHANGED <<user_file_desc, nextId>>
       ELSE /\ user_file_desc' = FileDescriptor(files[i], <<>>, nextId)
            /\ nextId' = nextId + 1
            /\ pc' = "t_types"
            /\ UNCHANGED error
    /\ UNCHANGED <<files, descriptors, remaining, resolved_in_pass, idx, passes,
                   warned, warning, lookupVars, sendVars, result, stdout>>

\* Body of the lookup loop: the if / elif on the name.
TestMatch(acc, message_desc) ==
    IF message_desc.name = "User"
    THEN [acc EXCEPT !.user = message_desc]
    ELSE IF message_desc.name = "Address"
    THEN [acc EXCEPT !.address = message_desc]
    ELSE acc

RECURSIVE TestScanMessages(_, _)
\* for message_desc in user_file_desc.message_types_by_name.values()
TestScanMessages(acc, descs) ==
    IF descs = <<>> THEN acc
    ELSE TestScanMessages(TestMatch(acc, Head(descs)), Tail(descs))

\* The two descriptors after the lookup loop.
TestLookup(file_desc) ==
    TestScanMessages([user |-> NoDesc, address |-> NoDesc],
                     MessageDescs(file_desc))

\* Variant of TestLookupFails: raises only when both are missing.
TestLookupFailsBoth(found) == found.user = NoDesc /\ found.address = NoDesc

\* if not user_desc or not address_desc
TestLookupFails(found) == found.user = NoDesc \/ found.address = NoDesc

\* The lookup loop and the check after it.
TestFindTypes ==
    /\ pc = "t_types"
    /\ LET found == TestLookup(user_file_desc) IN
       /\ user_desc' = found.user
       /\ address_desc' = found.address
       /\ IF TestLookupFails(found)
          THEN /\ error' = "ValueError"
               /\ pc' = "t_except"
          ELSE /\ pc' = "t_build"
               /\ UNCHANGED error
    /\ UNCHANGED <<loadVars, testVars, idx, order_desc, messages, sendVars,
                   result>>

\* address = address_class() and its four fields.
TestAddress ==
    [street |-> "123 Test Street", city |-> "Test City", country |-> "USA",
     zip_code |-> 12345]

\* user = user_class() and its fields.
TestUser ==
    [id |-> 999, name |-> "Test User", email |-> "test@example.com",
     tags |-> <<"test", "integration">>, type |-> 1, address |-> TestAddress]

\* The message is built and serialized, create_test_user_message returns and
\* the bytes are written to sys.stdout.buffer.
TestWrite ==
    /\ pc = "t_build"
    /\ stdout' = Append(stdout, SerializeToString(TestUser))
    /\ pc' = "t_exit"
    /\ UNCHANGED <<loadVars, idx, lookupVars, sendVars, error, result,
                   user_file_desc>>

\* except Exception: print to stderr, sys.exit(1).
TestExcept ==
    /\ pc = "t_except"
    /\ result' = TestErrorStatus
    /\ pc' = "t_exit"
    /\ UNCHANGED <<loadVars, testVars, idx, lookupVars, sendVars, error>>

NextTest ==
    \/ TestParse \/ TestParseError
    \/ TestFindFile \/ TestFindTypes
    \/ TestWrite
    \/ TestExcept

\* The test script, over every snapshot drawn from the test catalogue.
SpecTest == InitTest /\ [][NextTest]_vars

\* ------------------------------------------------- the snapshot as a graph
SnapshotNames == {files[i].name : i \in 1..Len(files)}

\* Names with an entry in the returned dict.
Resolved == {descriptors[i].key : i \in 1..Len(descriptors)}

Unresolved == SnapshotNames \ Resolved

FileOf(n) == files[CHOOSE i \in 1..Len(files) : files[i].name = n]

\* Declared dependency names of the record named n (none for an absent name).
DepsOf(n) ==
    IF n \in SnapshotNames
    THEN {FileOf(n).dependency[j] : j \in 1..Len(FileOf(n).dependency)}
    ELSE {}

RECURSIVE Closure(_, _)
Closure(S, k) ==
    IF k = 0 THEN S ELSE Closure(S \cup UNION {DepsOf(m) : m \in S}, k - 1)

\* Names the record named n depends on, directly or transitively.
DependsOn(n) == Closure(DepsOf(n), Len(files))

OnCycle(n) == n \in DependsOn(n)

Cyclic == {n \in SnapshotNames : OnCycle(n)}

HasCycle == Cyclic # {}

MissingDep(n) == \E m \in DepsOf(n) : m \notin SnapshotNames

\* Every declared dependency names a record of the snapshot, no cycle.
WellFormed ==
    /\ \A n \in SnapshotNames : ~MissingDep(n)
    /\ ~HasCycle

\* Records that lie on a cycle or declare an absent name, and the records
\* that depend on one of those directly or transitively.
Blocked ==
    {n \in SnapshotNames :
        \E m \in {n} \cup (DependsOn(n) \cap SnapshotNames) :
            OnCycle(m) \/ MissingDep(m)}

Range(s) == {s[i] : i \in 1..Len(s)}

\* ------------------------------------------------------------------ claims
\* C1: in every state of load_descriptors, and in the dict it returns, every
\* record that has an entry in descriptors has every one of its declared
\* dependencies in descriptors too.
C1_ResolvedDepsPresent ==
    \A n \in Resolved : \A dep \in DepsOf(n) : DictHas(descriptors, dep)

\* C1 witness: in the middle of a linking pass a record with dependencies is
\* in the dict while another record is still waiting.
C1_Witness ==
    /\ pc = "link"
    /\ idx <= Len(remaining)
    /\ \E n \in Resolved : DepsOf(n) # {}
    /\ Unresolved # {}

\* C2: for a well-formed snapshot of N records load_descriptors goes on until
\* it returns, it returns with all N records resolved and without a warning,
\* and it never makes more than N passes (seed pass and linking passes).
C2_WellFormedWithinN ==
    WellFormed /\ pc # "parse" =>
        /\ passes <= Len(files)
        /\ pc # "loaded" => ENABLED NextLoad
        /\ pc = "loaded" => Resolved = SnapshotNames /\ ~warned

\* C2 witness: a well-formed snapshot of MaxFiles records that needed exactly
\* as many passes as it has records.
C2_Witness ==
    /\ pc = "loaded"
    /\ WellFormed
    /\ Len(files) = MaxFiles
    /\ passes = Len(files)
    /\ Resolved = SnapshotNames

\* C3 as stated, and only for snapshots whose every dependency names a
\* record: with a cycle in the snapshot, the records left unresolved are
\* exactly the records lying on a cycle.
C3_Original ==
    /\ pc = "loaded"
    /\ HasCycle
    /\ \A n \in SnapshotNames : ~MissingDep(n)
    => Unresolved = Cyclic

\* C3 as amended: with a cycle in the snapshot, the records left unresolved
\* are exactly the records that lie on a cycle or declare an absent name,
\* and the records that depend on one of those; all other records resolve.
C3_UnresolvedAreBlocked ==
    pc = "loaded" /\ HasCycle => Unresolved = Blocked /\ warned

\* C3 witness: a snapshot with a cycle returned with one record resolved, the
\* cycle unresolved, and a record off the cycle unresolved as well.
C3_Witness ==
    /\ pc = "loaded"
    /\ HasCycle
    /\ Resolved # {}
    /\ \E n \in Unresolved : ~OnCycle(n)

\* C4: a record declaring a dependency absent from the snapshot never has an
\* entry in descriptors; on return the warning lists it; the warning lists
\* exactly the records without an entry, and is printed exactly when there
\* is such a record.
C4_MissingDepReported ==
    /\ \A n \in SnapshotNames : MissingDep(n) => ~DictHas(descriptors, n)
    /\ pc = "loaded" =>
          /\ warned <=> Unresolved # {}
          /\ Range(warning) = Unresolved
          /\ Len(warning) = Cardinality(Unresolved)
          /\ \A n \in SnapshotNames : MissingDep(n) => n \in Range(warning)
    /\ pc # "loaded" => ~warned

\* C4 witness: load_descriptors returned a partial graph and warned about a
\* record one of whose two dependencies is absent, the other resolved.
C4_Witness ==
    /\ pc = "loaded"
    /\ warned
    /\ \E n \in Range(warning) :
          /\ MissingDep(n)
          /\ \E dep \in DepsOf(n) : DictHas(descriptors, dep)

\* The two-file scenario: A declares nothing, B declares exactly A.
IsPair(A, B) ==
    /\ Len(files) = 2
    /\ SnapshotNames = {A, B}
    /\ A # B
    /\ FileOf(A).dependency = <<>>
    /\ FileOf(B).dependency = <<A>>

\* C5: for two files where B depends on A and A on nothing, in either file
\* order: A is the first object built and stays that object, B is in the
\* dict only after A, and the single reference linked into B is the object
\* stored for A.
C5_PairOrderAndIdentity ==
    \A A \in SnapshotNames : \A B \in SnapshotNames :
        IsPair(A, B) =>
            /\ DictHas(descriptors, A) => DictGet(descriptors, A).id = 1
            /\ DictHas(descriptors, B) =>
                  /\ DictHas(descriptors, A)
                  /\ DictGet(descriptors, B).id > DictGet(descriptors, A).id
                  /\ DictGet(descriptors, B).dependencies
                        = <<DictGet(descriptors, A).id>>
            /\ pc = "loaded" =>
                  [i \in 1..Len(descriptors) |-> descriptors[i].key] = <<A, B>>

\* C5 witness: the pair was given with B first and has been resolved.
C5_Witness ==
    /\ pc = "loaded"
    /\ Len(files) = 2
    /\ IsPair(files[2].name, files[1].name)
    /\ Len(descriptors) = 2

\* ------------------------------------------------- lookup and publish views
\* create_sample_messages has run its lookup.
LookedUp ==
    /\ pc \notin {"parse", "seed", "link", "loaded"}
    /\ error # "ParseError"

Required == {"User", "Order", "Address"}

\* Positions <<file, message>> of the types named n, in the iteration order
\* of descriptors.values() and message_types_by_name.values().
Matches(n) ==
    UNION { {<<i, j>> : j \in {j \in 1..Len(descriptors[i].val.message_types) :
                                  descriptors[i].val.message_types[j] = n}}
            : i \in 1..Len(descriptors) }

PosBefore(p, q) == p[1] < q[1] \/ (p[1] = q[1] /\ p[2] < q[2])

DescAt(p) == MessageDescs(descriptors[p[1]].val)[p[2]]

FirstMatch(n) ==
    IF Matches(n) = {} THEN NoDesc
    ELSE DescAt(CHOOSE p \in Matches(n) : \A q \in Matches(n) : p = q \/ PosBefore(p, q))

LastMatch(n) ==
    IF Matches(n) = {} THEN NoDesc
    ELSE DescAt(CHOOSE p \in Matches(n) : \A q \in Matches(n) : p = q \/ PosBefore(q, p))

\* Two resolved files of different packages both define a type named n.
Collides(n) ==
    \E p \in Matches(n) : \E q \in Matches(n) :
        descriptors[p[1]].val.package # descriptors[q[1]].val.package

FoundFor(n) ==
    IF n = "User" THEN user_desc ELSE IF n = "Order" THEN order_desc ELSE address_desc

TypeInGraph(n) == Matches(n) # {}

\* Positions of the sends of a trace whose get failed.
FailedAt(trace) ==
    {k \in 1..Len(trace) : trace[k].ev = "send" /\ ~trace[k].ok}

\* The burst as a whole: one producer opened, every triple of the corpus sent
\* once and acknowledged, in corpus order, the producer closed.
BurstComplete ==
    /\ Len(messages) = UserSamples + OrderSamples
    /\ \A k \in 1..Len(messages) :
          /\ messages[k].topic = IF k <= UserSamples THEN "user-events" ELSE "order-events"
          /\ messages[k].description =
                IF k <= UserSamples THEN <<"User ", k - 1>>
                ELSE <<"Order ", k - 1 - UserSamples>>
    /\ Len(sent) = Len(messages) + 2
    /\ sent[1] = OpenEvent(1)
    /\ \A k \in 1..Len(messages) : sent[k + 1] = SendEvent(messages[k], 1, TRUE)
    /\ sent[Len(sent)] = CloseEvent(1)

\* The events of one whole periodic cycle on producer c.
CycleEvents(c) ==
    << SleepEvent,
       OpenEvent(c),
       SendEvent(messages[1], c, TRUE),
       SendEvent(messages[Len(messages)], c, TRUE),
       CloseEvent(c) >>

\* C6 as stated: when files of different packages collide on a required type
\* name, a lookup that finds all three types returns the first match in
\* iteration order.
C6_Original ==
    LookedUp /\ error # "ValueError" =>
        \A n \in Required : Collides(n) => FoundFor(n) = FirstMatch(n)

\* C6 as amended: when files of different packages collide on a required
\* type name, the lookup ends with the last match in iteration order: a later
\* file with a colliding name replaces the earlier match.
C6_LastMatchWins ==
    LookedUp => \A n \in Required : Collides(n) => FoundFor(n) = LastMatch(n)

\* C6 witness: two resolved files of different packages define User, the
\* lookup found all three types, and it holds the later User, not the
\* earlier one.
C6_Witness ==
    /\ LookedUp
    /\ error = "none"
    /\ messages # <<>>
    /\ Collides("User")
    /\ user_desc = LastMatch("User")
    /\ user_desc # FirstMatch("User")

\* C7: the sends of the burst are a prefix of the corpus, each triple once,
\* in corpus order, on the one producer opened first and closed only after
\* the last triple; and a periodic cycle begins only after the whole burst
\* (five user triples, three order triples) was sent and acknowledged.
C7_BurstOnce ==
    /\ \A k \in 1..Len(sent) :
          /\ sent[k].ev = "open" <=> k = 1
          /\ sent[k].conn = 1
          /\ sent[k].ev = "send" =>
                /\ k - 1 <= Len(messages)
                /\ sent[k] = SendEvent(messages[k - 1], 1, sent[k].ok)
          /\ sent[k].ev = "close" => k = Len(messages) + 2
    /\ (pc \in {"sleep", "cycle_open", "cycle"} \/ cycles > 0 \/ cycleSent # <<>>
            \/ opened > 1)
          => BurstComplete

\* C7 witness: the burst is over and no periodic cycle has begun.
C7_Witness ==
    /\ pc = "sleep"
    /\ cycles = 0
    /\ BurstComplete

\* C8: a periodic cycle is sleep, open, one send to user-events (the first
\* user triple), one send to order-events (the last order triple), close, in
\* this order and nothing else; the loop always has a next step, and main
\* leaves it only through a failed delivery.
C8_PeriodicCycle ==
    /\ pc = "cycle_open" => cycleSent = <<SleepEvent>>
    /\ pc = "cycle" =>
          /\ idx \in 1..3
          /\ cycleSent = SubSeq(CycleEvents(producer), 1, idx + 1)
    /\ pc = "sleep" /\ cycles > 0 =>
          /\ cycleSent = CycleEvents(producer)
          /\ cycleSent[3].topic = "user-events"
          /\ cycleSent[4].topic = "order-events"
    /\ pc = "sleep" /\ cycles < MaxCycles => ENABLED Sleep
    /\ pc = "cycle_open" => ENABLED CycleOpen
    /\ pc = "cycle" => ENABLED (CycleSend \/ CycleClose)
    /\ pc \in {"except", "exit"} /\ cycles > 0 =>
          /\ error = "DeliveryError"
          /\ FailedAt(cycleSent) = {Len(cycleSent)}

\* C8 witness: MaxCycles whole cycles have run and the loop is asleep again.
C8_Witness ==
    /\ pc = "sleep"
    /\ cycles = MaxCycles
    /\ cycleSent = CycleEvents(producer)

\* C9: a failed delivery is the last event of the run: nothing is sent and no
\* producer is opened after it, the failed triple is sent once, a failure in
\* the burst leaves the rest of the corpus unsent and the loop unentered, and
\* main returns a non-zero value.
C9_DeliveryErrorTerminal ==
    /\ FailedAt(sent) \subseteq {Len(sent)}
    /\ FailedAt(cycleSent) \subseteq {Len(cycleSent)}
    /\ error = "DeliveryError" <=> FailedAt(sent) \cup FailedAt(cycleSent) # {}
    /\ error = "DeliveryError" => pc \in {"except", "exit"}
    /\ FailedAt(sent) # {} => cycles = 0 /\ cycleSent = <<>> /\ opened = 1
    /\ FailedAt(cycleSent) # {} => opened = cycles + 1
    /\ pc = "exit" => result # 0

\* C9 witness: a delivery of the burst failed with triples still unsent, and
\* main has returned.
C9_Witness ==
    /\ pc = "exit"
    /\ error = "DeliveryError"
    /\ FailedAt(sent) # {}
    /\ Len(sent) < Len(messages)
    /\ result = 1

\* C10: load_descriptors returns also after its warning and the lookup runs
\* on what it returned; when a required type is in no resolved file the
\* lookup raises, no producer is ever opened, nothing is sent, and main
\* returns a non-zero value; the lookup raises for no other reason.
C10_PartialGraphLookup ==
    /\ pc = "loaded" => ENABLED CreateSampleMessages
    /\ LookedUp /\ (\E n \in Required : ~TypeInGraph(n)) =>
          /\ error = "ValueError"
          /\ pc \in {"except", "exit"}
          /\ opened = 0 /\ open = {} /\ producer = 0
          /\ sent = <<>> /\ cycleSent = <<>> /\ messages = <<>>
          /\ pc = "exit" => result # 0
    /\ error = "ValueError" => \E n \in Required : ~TypeInGraph(n)

\* C10 witness: the warning was printed, a partial graph came back, the
\* lookup raised on it, and main returned 1.
C10_Witness ==
    /\ pc = "exit"
    /\ warned
    /\ descriptors # <<>>
    /\ error = "ValueError"
    /\ result = 1

\* C11: at most one producer is open at a time, a send loop runs only with
\* its producer open, and whenever main is not inside a send loop (asleep
\* between cycles, in the except block, or returned) no producer is open.
C11_EveryProducerClosed ==
    /\ Cardinality(open) <= 1
    /\ pc \in {"burst", "cycle"} => producer \in open
    /\ pc \in {"sleep", "cycle_open", "except", "exit"} => open = {}

\* The part of C11 that the code keeps: one producer at most, sends only on
\* an open producer, and no producer open while main sleeps between cycles.
ProducerClosedUnlessFailed ==
    /\ Cardinality(open) <= 1
    /\ pc \in {"burst", "cycle"} => producer \in open
    /\ pc \in {"sleep", "cycle_open"} => open = {}
    /\ pc \in {"except", "exit"} /\ error # "DeliveryError" => open = {}

\* ------------------------------------------------------- views of the corpus
\* The message serialized into the k-th triple of the corpus.
Sample(k) == messages[k].value.wire

\* Positions of the user triples and of the order triples in the corpus.
UserAt == 1..UserSamples

OrderAt == (UserSamples + 1)..(UserSamples + OrderSamples)

\* Loop index of the sample at position k.
IndexOf(k) == IF k \in UserAt THEN k - 1 ELSE k - 1 - UserSamples

CorpusBuilt == Len(messages) = UserSamples + OrderSamples

\* C12: in the synthesized corpus distinct indices give distinct user ids,
\* names and emails (standalone users, and users embedded in orders), distinct
\* order ids and distinct product ids; and the ids of the standalone users,
\* of the embedded users and of the orders are pairwise different.
C12_IdentifiersInjective ==
    CorpusBuilt =>
        /\ \A k \in UserAt : \A l \in UserAt : k # l =>
              /\ Sample(k).id # Sample(l).id
              /\ Sample(k).name # Sample(l).name
              /\ Sample(k).email # Sample(l).email
        /\ \A k \in OrderAt : \A l \in OrderAt : k # l =>
              /\ Sample(k).id # Sample(l).id
              /\ Sample(k).items[1].product_id # Sample(l).items[1].product_id
              /\ Sample(k).user.id # Sample(l).user.id
              /\ Sample(k).user.name # Sample(l).user.name
              /\ Sample(k).user.email # Sample(l).user.email
        /\ \A k \in UserAt : \A l \in OrderAt :
              /\ Sample(k).id # Sample(l).user.id
              /\ Sample(k).id # Sample(l).id
        /\ \A k \in OrderAt : \A l \in OrderAt : Sample(k).user.id # Sample(l).id

\* C12 witness: the whole corpus of five users and three orders was built
\* and its last user and last order carry the ids of indices 4 and 2.
C12_Witness ==
    /\ CorpusBuilt
    /\ pc = "connect"
    /\ Sample(UserSamples).id = 1004
    /\ Sample(UserSamples + OrderSamples).id = 9002
    /\ Sample(UserSamples + OrderSamples).user.id = 2002

\* C13 as stated: the type of a standalone user, the type of the user
\* embedded in an order and the status of an order differ between a sample of
\* even index and a sample of odd index.
C13_Original ==
    CorpusBuilt =>
        /\ \A k \in UserAt : \A l \in UserAt :
              IndexOf(k) % 2 # IndexOf(l) % 2 => Sample(k).type # Sample(l).type
        /\ \A k \in OrderAt : \A l \in OrderAt :
              IndexOf(k) % 2 # IndexOf(l) % 2 =>
                  /\ Sample(k).user.type # Sample(l).user.type
                  /\ Sample(k).status # Sample(l).status

\* C13 as amended: the type of a standalone user is 1 for an even index and
\* 2 for an odd index; the type of the user embedded in an order is 2 and the
\* status of an order is 1 whatever the index.
C13_OnlyUserTypeByParity ==
    CorpusBuilt =>
        /\ \A k \in UserAt :
              Sample(k).type = IF IndexOf(k) % 2 = 0 THEN 1 ELSE 2
        /\ \A k \in OrderAt :
              /\ Sample(k).user.type = 2
              /\ Sample(k).status = 1

\* C13 witness: the corpus holds standalone users of both types, and orders
\* of even and odd index with the same status and the same embedded type.
C13_Witness ==
    /\ CorpusBuilt
    /\ Sample(1).type = 1
    /\ Sample(2).type = 2
    /\ Sample(UserSamples + 1).status = Sample(UserSamples + 2).status
    /\ Sample(UserSamples + 1).user.type = Sample(UserSamples + 2).user.type

\* C14: for every snapshot load_descriptors goes on until it returns, within
\* one pass more than there are records; a linking pass that is followed by
\* another one has shortened remaining; and on return no unresolved record
\* has all of its declared dependencies in descriptors.
C14_TerminatesMaximal ==
    /\ [](/\ passes <= Len(files) + 1
          /\ pc # "loaded" => ENABLED NextLoad
          /\ pc = "loaded" =>
                \A n \in Unresolved : ~(DepsOf(n) \subseteq Resolved))
    /\ [][pc = "link" /\ idx > Len(remaining) =>
              Len(remaining') < Len(remaining) \/ pc' = "loaded"]_vars

\* C14 witness: a linking pass shortened remaining, a later pass linked
\* nothing and was the last, and records are left unresolved.
C14_Witness ==
    /\ pc = "loaded"
    /\ warned
    /\ passes >= 3
    /\ Len(descriptors) >= 2
    /\ Unresolved # {}

\* The file list fs reordered by the permutation q of its positions.
Permute(fs, q) == [i \in 1..Len(fs) |-> fs[q[i]]]

\* Key under which the dict d holds the object of identity id.
NameOfId(d, id) == d[CHOOSE i \in 1..Len(d) : d[i].val.id = id].key

\* The graph held by the dict d, without construction order and identities:
\* for each key the names of the files its descriptor is linked to.
Links(d) ==
    { [name         |-> d[i].key,
       dependencies |-> [j \in 1..Len(d[i].val.dependencies) |->
                            NameOfId(d, d[i].val.dependencies[j])]]
      : i \in 1..Len(d) }

\* C15: what load_descriptors returned for the file list is, for every
\* reordering of that list, what it returns for the reordered list: the same
\* resolved names, each linked to the same dependency names, the same warning
\* or none, the same set of names in the warning.
C15_OrderIndependent ==
    pc = "loaded" =>
        /\ LoadDescriptors(files).descriptors = descriptors
        /\ LoadDescriptors(files).warned = warned
        /\ LoadDescriptors(files).warning = warning
        /\ \A q \in Permutations(1..Len(files)) :
              LET other == LoadDescriptors(Permute(files, q)) IN
              /\ Links(other.descriptors) = Links(descriptors)
              /\ other.warned = warned
              /\ Range(other.warning) = Range(warning)

\* C15 witness: a snapshot returned with a resolved record and a warning that
\* names several records, one of which depends on another, and one of its
\* reorderings reports the same names in another order.
C15_Witness ==
    /\ pc = "loaded"
    /\ warned
    /\ Resolved # {}
    /\ \E n \in Unresolved : DepsOf(n) \cap Unresolved # {}
    /\ \E q \in Permutations(1..Len(files)) :
          LoadDescriptors(Permute(files, q)).warning # warning

\* Resolution and synthesis are over: main is at or past the construction of
\* its first producer.
Publishing == pc \in {"connect", "burst", "sleep", "cycle_open", "cycle"}

\* C16: from the construction of the first producer on, no step changes the
\* file list, the dict of descriptors, the descriptors found by the lookup or
\* the corpus; and the two payloads sent in a periodic cycle are the payload
\* of the first user triple and of the last order triple sent in the burst.
C16_PublishingFrame ==
    /\ [][Publishing =>
              /\ files' = files
              /\ descriptors' = descriptors
              /\ <<user_desc, order_desc, address_desc>>'
                    = <<user_desc, order_desc, address_desc>>
              /\ messages' = messages]_vars
    /\ [](\A k \in 1..Len(cycleSent) : cycleSent[k].ev = "send" =>
              /\ k \in {3, 4}
              /\ k = 3 =>
                    /\ cycleSent[k].value = sent[2].value
                    /\ sent[2].description = <<"User ", 0>>
              /\ k = 4 =>
                    /\ cycleSent[k].value = sent[Len(messages) + 1].value
                    /\ sent[Len(messages) + 1].description
                          = <<"Order ", OrderSamples - 1>>)

\* C16 witness: MaxCycles cycles have run, the last one sent the burst's
\* first user payload and last order payload, and the graph is still there.
C16_Witness ==
    /\ pc = "sleep"
    /\ cycles = MaxCycles
    /\ Len(cycleSent) = 5
    /\ cycleSent[3].value = sent[2].value
    /\ cycleSent[4].value = sent[Len(messages) + 1].value
    /\ cycleSent[3].value # cycleSent[4].value
    /\ Len(descriptors) >= 2

\* The file the test script takes for user.proto: the first of that name in
\* the snapshot; 0 when there is none.
TestFileAt == FirstNamed(files, "user.proto", 1)

\* The snapshot has no file named user.proto, or that file does not define
\* both User and Address.
TestSnapshotLacking ==
    \/ TestFileAt = 0
    \/ ~({"User", "Address"} \subseteq Range(files[TestFileAt].messages))

\* The snapshot was read.
TestParsed == pc \in {"t_file", "t_types", "t_build", "t_except", "t_exit"}
                 /\ error # "ParseError"

\* C17: in the test script, when the snapshot has no file named user.proto or
\* that file lacks User or Address, the run goes on until it has raised
\* ValueError and exited with status 1, and nothing is ever written to
\* standard output; whatever is on standard output is the one serialized,
\* fully built user message, written by a run that found both types in
\* user.proto and raised nothing.
C17_TestScriptFailsClosed ==
    /\ TestParsed /\ TestSnapshotLacking =>
          /\ stdout = <<>>
          /\ pc # "t_build"
          /\ pc # "t_exit" => ENABLED NextTest
          /\ pc \in {"t_except", "t_exit"} => error = "ValueError"
          /\ pc = "t_exit" => result = TestErrorStatus
    /\ error # "none" =>
          /\ stdout = <<>>
          /\ pc \in {"t_except", "t_exit"}
          /\ pc = "t_exit" => result = TestErrorStatus
    /\ stdout # <<>> =>
          /\ stdout = <<SerializeToString(TestUser)>>
          /\ pc = "t_exit"
          /\ error = "none"
          /\ result = SuccessStatus
          /\ ~TestSnapshotLacking
          /\ user_desc.name = "User" /\ user_desc.file = "user.proto"
          /\ address_desc.name = "Address" /\ address_desc.file = "user.proto"
          /\ user_desc.package = files[TestFileAt].package

\* C17 witness: the script has exited with status 1 and an empty standard
\* output on a snapshot whose first user.proto defines User but no Address,
\* although another file of the snapshot defines Address.
C17_Witness ==
    /\ pc = "t_exit"
    /\ result = TestErrorStatus
    /\ error = "ValueError"
    /\ stdout = <<>>
    /\ user_file_desc # NoFileDesc
    /\ user_desc # NoDesc
    /\ address_desc = NoDesc
    /\ \E i \in 1..Len(files) :
          i # TestFileAt /\ {"User", "Address"} \subseteq Range(files[i].messages)

====
